---- MODULE Spec2Model ----
(***************************************************************************)
(* Model of src/src/token.rs: the mustache Tokenlizer, a character stream  *)
(* with a pushback queue (buf) in front of a forward-only reader, and the  *)
(* two-state lexer read_token built on it.                                 *)
(*                                                                         *)
(* A character is a one-character string; a Rust String / &str is a        *)
(* sequence of characters.  "U+00E9" stands for a character outside ASCII  *)
(* (two bytes in UTF-8); str::len counts bytes, so ByteLen keeps the       *)
(* difference between bytes and characters that the source has.            *)
(***************************************************************************)
EXTENDS Integers, Sequences, FiniteSets

VARIABLES
    input,   \* the characters the underlying source was created with
    lm,      \* Tokenlizer.lm, the open delimiter
    rm,      \* Tokenlizer.rm, the close delimiter
    reader,  \* what the underlying iterator has not produced yet
    buf,     \* Tokenlizer.buf, the pushback queue, front first
    state,   \* Tokenlizer.state
    tokens,  \* the tokens returned by next() so far, in order
    done,    \* a next() call has returned None
    skipped, \* the positions in input of the spaces next() has skipped
    last     \* the last call: operation, arguments, result, state before it

vars == <<input, lm, rm, reader, buf, state, tokens, done, skipped, last>>

(***************************************************************************)
(* Bounds of the model.                                                    *)
(***************************************************************************)
MaxLen == 4      \* inputs over CoreChars have at most MaxLen characters
MaxWide == 2     \* inputs over WideChars have at most MaxWide characters
MaxOpsLen == 3   \* inputs of the stream-operation specifications
MaxRead == 3     \* largest size given to read_str

(***************************************************************************)
(* Characters.                                                             *)
(***************************************************************************)
NonAscii == {"U+00E9"}

Digits == {"0", "1", "2", "3", "4", "5", "6", "7", "8", "9"}

Lower == {"a", "b", "c", "d", "e", "f", "g", "h", "i", "j", "k", "l", "m",
          "n", "o", "p", "q", "r", "s", "t", "u", "v", "w", "x", "y", "z"}

Upper == {"A", "B", "C", "D", "E", "F", "G", "H", "I", "J", "K", "L", "M",
          "N", "O", "P", "Q", "R", "S", "T", "U", "V", "W", "X", "Y", "Z"}

\* char::is_digit(36): the ASCII digits and letters, and nothing else
is_digit36(ch) == ch \in Digits \cup Lower \cup Upper

is_id(ch) == is_digit36(ch) \/ ch = "_"

\* the number of bytes of a character in UTF-8
len_utf8(ch) == IF ch \in NonAscii THEN 2 ELSE 1

\* str::len, the length in bytes
RECURSIVE ByteLen(_)
ByteLen(st) == IF st = <<>> THEN 0 ELSE len_utf8(Head(st)) + ByteLen(Tail(st))

\* str::ends_with
ends_with(s, suffix) ==
    /\ Len(suffix) <= Len(s)
    /\ SubSeq(s, Len(s) - Len(suffix) + 1, Len(s)) = suffix

\* truncate that leaves the string as it is
truncate_whole(s, new_len) == s

\* String::truncate(new_len): the prefix of new_len bytes
truncate(s, new_len) ==
    LET k == CHOOSE k \in 0..Len(s) : ByteLen(SubSeq(s, 1, k)) = new_len
    IN  SubSeq(s, 1, k)

Max(a, b) == IF a >= b THEN a ELSE b

(***************************************************************************)
(* Tokens (enum Token) and Option<Token>.                                  *)
(***************************************************************************)
Text(s) == [type |-> "Text", str |-> s]
Id(s) == [type |-> "Id", str |-> s]
LMustache == [type |-> "LMustache", str |-> <<>>]
RMustache == [type |-> "RMustache", str |-> <<>>]
UnescapeTag == [type |-> "UnescapeTag", str |-> <<>>]
Pound == [type |-> "Pound", str |-> <<>>]
Slash == [type |-> "Slash", str |-> <<>>]
Hat == [type |-> "Hat", str |-> <<>>]
None == [type |-> "None", str |-> <<>>]

(***************************************************************************)
(* The character stream.  self is the Tokenlizer as a record               *)
(* [reader, buf, state, lm, rm, peak, ws]; peak is the largest length buf  *)
(* has had since the call began and ws the spaces skip_ws has dropped      *)
(* since then, each as the number of characters that were unread when it   *)
(* was read.  Every operation returns the Tokenlizer it leaves and its     *)
(* result.                                                                 *)
(***************************************************************************)
\* read that takes from the reader before the pushback queue
read_reader_first(self) ==
    IF self.reader # <<>>
    THEN [self |-> [self EXCEPT !.reader = Tail(@)], some |-> TRUE, ch |-> Head(self.reader)]
    ELSE IF self.buf # <<>>
    THEN [self |-> [self EXCEPT !.buf = Tail(@)], some |-> TRUE, ch |-> Head(self.buf)]
    ELSE [self |-> self, some |-> FALSE, ch |-> ""]

read(self) ==
    IF self.buf # <<>>
    THEN [self |-> [self EXCEPT !.buf = Tail(@)], some |-> TRUE, ch |-> Head(self.buf)]
    ELSE IF self.reader # <<>>
    THEN [self |-> [self EXCEPT !.reader = Tail(@)], some |-> TRUE, ch |-> Head(self.reader)]
    ELSE [self |-> self, some |-> FALSE, ch |-> ""]

\* push_back_char that puts the character at the back of the queue
push_back_char_last(self, ch) ==
    [self EXCEPT !.buf = Append(@, ch),
                 !.peak = Max(@, Len(self.buf) + 1)]

push_back_char(self, ch) ==
    [self EXCEPT !.buf = <<ch>> \o @,
                 !.peak = Max(@, Len(self.buf) + 1)]

RECURSIVE reverse(_)
reverse(s) == IF s = <<>> THEN <<>> ELSE Append(reverse(Tail(s)), Head(s))

RECURSIVE push_back_each(_, _)
push_back_each(self, chars) ==
    IF chars = <<>> THEN self
    ELSE push_back_each(push_back_char(self, Head(chars)), Tail(chars))

\* push_back_str that pushes the characters in the order written
push_back_str_forward(self, st) == push_back_each(self, st)

push_back_str(self, st) == push_back_each(self, reverse(st))

RECURSIVE read_str_loop(_, _, _)
read_str_loop(self, n, acc) ==
    IF n = 0 THEN [self |-> self, some |-> TRUE, str |-> acc]
    ELSE LET r == read(self) IN
         IF r.some THEN read_str_loop(r.self, n - 1, Append(acc, r.ch))
         ELSE [self |-> push_back_str(r.self, acc), some |-> FALSE, str |-> <<>>]

\* read_str that returns None at the end of input without pushing back
RECURSIVE read_str_drop_loop(_, _, _)
read_str_drop_loop(self, n, acc) ==
    IF n = 0 THEN [self |-> self, some |-> TRUE, str |-> acc]
    ELSE LET r == read(self) IN
         IF r.some THEN read_str_drop_loop(r.self, n - 1, Append(acc, r.ch))
         ELSE [self |-> r.self, some |-> FALSE, str |-> <<>>]

read_str_drop(self, size) == read_str_drop_loop(self, size, <<>>)

\* read_str that returns what it has read when the input runs out
RECURSIVE read_str_some_loop(_, _, _)
read_str_some_loop(self, n, acc) ==
    IF n = 0 THEN [self |-> self, some |-> TRUE, str |-> acc]
    ELSE LET r == read(self) IN
         IF r.some THEN read_str_some_loop(r.self, n - 1, Append(acc, r.ch))
         ELSE [self |-> r.self, some |-> TRUE, str |-> acc]

read_str_some(self, size) == read_str_some_loop(self, size, <<>>)

read_str(self, size) == read_str_loop(self, size, <<>>)

RECURSIVE read_until_loop(_, _, _)
read_until_loop(self, until, acc) ==
    LET r == read(self) IN
    IF ~r.some THEN [self |-> r.self, buf |-> acc]
    ELSE LET b == Append(acc, r.ch) IN
         IF ends_with(b, until)
         THEN [self |-> push_back_str(r.self, until),
               buf |-> truncate(b, ByteLen(b) - ByteLen(until))]
         ELSE read_until_loop(r.self, until, b)

\* read_until that pushes back all it has read when it meets `until`
RECURSIVE read_until_unread_loop(_, _, _)
read_until_unread_loop(self, until, acc) ==
    LET r == read(self) IN
    IF ~r.some THEN [self |-> r.self, buf |-> acc]
    ELSE LET b == Append(acc, r.ch) IN
         IF ends_with(b, until)
         THEN [self |-> push_back_str(r.self, b),
               buf |-> truncate(b, ByteLen(b) - ByteLen(until))]
         ELSE read_until_unread_loop(r.self, until, b)

read_until_unread(self, until) ==
    LET r == read_until_unread_loop(self, until, <<>>) IN
    [self |-> r.self, some |-> ByteLen(r.buf) > 0, str |-> r.buf]

\* read_until that does not push `until` back
RECURSIVE read_until_eat_loop(_, _, _)
read_until_eat_loop(self, until, acc) ==
    LET r == read(self) IN
    IF ~r.some THEN [self |-> r.self, buf |-> acc]
    ELSE LET b == Append(acc, r.ch) IN
         IF ends_with(b, until)
         THEN [self |-> r.self,
               buf |-> truncate(b, ByteLen(b) - ByteLen(until))]
         ELSE read_until_eat_loop(r.self, until, b)

read_until_eat(self, until) ==
    LET r == read_until_eat_loop(self, until, <<>>) IN
    [self |-> r.self, some |-> ByteLen(r.buf) > 0, str |-> r.buf]

\* read_until that returns the empty string where read_until returns None
read_until_empty(self, until) ==
    LET r == read_until_loop(self, until, <<>>) IN
    [self |-> r.self, some |-> TRUE, str |-> r.buf]

read_until(self, until) ==
    LET r == read_until_loop(self, until, <<>>) IN
    [self |-> r.self, some |-> ByteLen(r.buf) > 0, str |-> r.buf]

\* pred is the set of the characters the predicate accepts
RECURSIVE read_while_loop(_, _, _)
read_while_loop(self, pred, acc) ==
    LET r == read(self) IN
    IF ~r.some THEN [self |-> r.self, buf |-> acc]
    ELSE IF r.ch \in pred THEN read_while_loop(r.self, pred, Append(acc, r.ch))
    ELSE [self |-> push_back_char(r.self, r.ch), buf |-> acc]

\* read_while that does not push back the character that ends the run
RECURSIVE read_while_eat_loop(_, _, _)
read_while_eat_loop(self, pred, acc) ==
    LET r == read(self) IN
    IF ~r.some THEN [self |-> r.self, buf |-> acc]
    ELSE IF r.ch \in pred THEN read_while_eat_loop(r.self, pred, Append(acc, r.ch))
    ELSE [self |-> r.self, buf |-> acc]

read_while_eat(self, pred) ==
    LET r == read_while_eat_loop(self, pred, <<>>) IN
    [self |-> r.self, some |-> ByteLen(r.buf) > 0, str |-> r.buf]

read_while(self, pred) ==
    LET r == read_while_loop(self, pred, <<>>) IN
    [self |-> r.self, some |-> ByteLen(r.buf) > 0, str |-> r.buf]

\* starts_with that does not push back a read that differs from st
starts_with_keep(self, st) ==
    LET r == read_str(self, ByteLen(st)) IN
    IF r.some /\ r.str = st THEN [self |-> r.self, ret |-> TRUE]
    ELSE [self |-> r.self, ret |-> FALSE]

starts_with(self, st) ==
    LET r == read_str(self, ByteLen(st)) IN
    IF r.some
    THEN IF r.str = st THEN [self |-> r.self, ret |-> TRUE]
         ELSE [self |-> push_back_str(r.self, r.str), ret |-> FALSE]
    ELSE [self |-> r.self, ret |-> FALSE]

\* skip_ws that also skips tabs
Blank == {" ", "\t"}

RECURSIVE skip_ws_blank(_)
skip_ws_blank(self) ==
    LET r == read(self) IN
    IF r.some /\ r.ch \in Blank
    THEN skip_ws_blank([r.self EXCEPT !.ws = @ \cup {Len(self.buf) + Len(self.reader)}])
    ELSE IF r.some THEN push_back_char(r.self, r.ch)
    ELSE r.self

RECURSIVE skip_ws(_)
skip_ws(self) ==
    LET r == read(self) IN
    IF r.some /\ r.ch = " "
    THEN skip_ws([r.self EXCEPT !.ws = @ \cup {Len(self.buf) + Len(self.reader)}])
    ELSE IF r.some THEN push_back_char(r.self, r.ch)
    ELSE r.self

(***************************************************************************)
(* read_token.  token_rules is the macro of the same name: the rules are   *)
(* tried in the order written and the first whose string starts_with      *)
(* accepts returns its token; to is the state the rule's action assigns    *)
(* ("" when it assigns none).                                              *)
(***************************************************************************)
\* token_rules whose every rule assigns State::Normal
RECURSIVE token_rules_reset(_, _)
token_rules_reset(self, rules) ==
    IF rules = <<>> THEN [self |-> self, ret |-> None]
    ELSE LET r == starts_with(self, Head(rules).e) IN
         IF r.ret
         THEN [self |-> [r.self EXCEPT !.state = "Normal"], ret |-> Head(rules).a]
         ELSE token_rules_reset(r.self, Tail(rules))

RECURSIVE token_rules(_, _)
token_rules(self, rules) ==
    IF rules = <<>> THEN [self |-> self, ret |-> None]
    ELSE LET r == starts_with(self, Head(rules).e) IN
         IF r.ret
         THEN [self |-> [r.self EXCEPT !.state =
                            IF Head(rules).to = "" THEN @ ELSE Head(rules).to],
               ret |-> Head(rules).a]
         ELSE token_rules(r.self, Tail(rules))

\* the rules with a closeDelim rule that assigns no state
syntax_rules_stay(rm_) ==
    << [e |-> <<"#">>, a |-> Pound,       to |-> ""],
       [e |-> <<"&">>, a |-> UnescapeTag, to |-> ""],
       [e |-> <<"/">>, a |-> Slash,       to |-> ""],
       [e |-> <<"^">>, a |-> Hat,         to |-> ""],
       [e |-> rm_,     a |-> RMustache,   to |-> ""] >>

\* the rules of the State::SyntaxToken arm, in source order
syntax_rules(rm_) ==
    << [e |-> <<"#">>, a |-> Pound,       to |-> ""],
       [e |-> <<"&">>, a |-> UnescapeTag, to |-> ""],
       [e |-> <<"/">>, a |-> Slash,       to |-> ""],
       [e |-> <<"^">>, a |-> Hat,         to |-> ""],
       [e |-> rm_,     a |-> RMustache,   to |-> "Normal"] >>

\* the characters is_id accepts, as the predicate given to read_while
is_id_pred == {ch \in Digits \cup Lower \cup Upper \cup NonAscii \cup
                      {"_", " ", "\t", "\n", "{", "}", "#", "&", "/", "^", "!"} : is_id(ch)}

\* read_token that leaves the tag when nothing in it is recognised
read_token_close_at_end(self) ==
    IF self.state = "Normal"
    THEN LET r == starts_with(self, self.lm) IN
         IF r.ret
         THEN [self |-> [r.self EXCEPT !.state = "SyntaxToken"], ret |-> LMustache]
         ELSE LET u == read_until(r.self, self.lm) IN
              [self |-> u.self, ret |-> IF u.some THEN Text(u.str) ELSE None]
    ELSE LET s == skip_ws(self)
             m == token_rules(s, syntax_rules(self.rm))
         IN  IF m.ret # None THEN m
             ELSE LET w == read_while(m.self, is_id_pred) IN
                  IF w.some THEN [self |-> w.self, ret |-> Id(w.str)]
                  ELSE [self |-> [w.self EXCEPT !.state = "Normal"], ret |-> None]

read_token(self) ==
    IF self.state = "Normal"
    THEN LET r == starts_with(self, self.lm) IN
         IF r.ret
         THEN [self |-> [r.self EXCEPT !.state = "SyntaxToken"], ret |-> LMustache]
         ELSE LET u == read_until(r.self, self.lm) IN
              [self |-> u.self, ret |-> IF u.some THEN Text(u.str) ELSE None]
    ELSE LET s == skip_ws(self)
             m == token_rules(s, syntax_rules(self.rm))
         IN  IF m.ret # None THEN m
             ELSE LET w == read_while(m.self, is_id_pred) IN
                  [self |-> w.self, ret |-> IF w.some THEN Id(w.str) ELSE None]

\* Tokenlizer::new
new(lm_, rm_, reader_) ==
    [reader |-> reader_, buf |-> <<>>, state |-> "Normal",
     lm |-> lm_, rm |-> rm_, peak |-> 0, ws |-> {}]

(***************************************************************************)
(* Inputs and delimiters the model is run on.                              *)
(***************************************************************************)
CoreChars == {"{", "}", "a", "#", " ", "U+00E9"}

WideChars == CoreChars \cup {"&", "/", "^", "!", "\t", "1", "_", "Z"}

RECURSIVE Strings(_, _)
Strings(S, n) ==
    IF n = 0 THEN {<<>>}
    ELSE LET P == Strings(S, n - 1) IN P \cup {Append(p, c) : p \in P, c \in S}

ExBasic == <<"a", "b", "c", "{", "{", "b", "c", "d", "}", "}">>

ExOps == <<"a", "b", "c", "{", "{", "^", " ", "#", " ", "a", "b", "c", "}", "}", "b", "c", "d">>

ExUnterminated == <<"{", "{", "a", "b", "c">>

ExUnrecognized == <<"{", "{", "!", "}", "}">>

ExPlain == <<"j", "u", "s", "t", " ", "p", "l", "a", "i", "n", " ", "t", "e", "x", "t">>

ExDigitsFirst == <<"{", "{", "1", "2", "3", "a", "b", "c", "}", "}">>

ExUnderscore == <<"{", "{", "_", "x", "9", "}", "}", "b">>

ExOverlap == <<"a", "{", "{", "{", "b", "}", "}">>

ExAllOps == <<"{", "{", "#", "a", "}", "}", "{", "{", "&", "a", "}", "}", "{", "{", "/", "a", "}", "}", "{", "{", "^", "a", "}", "}">>

ExTab == <<"{", "{", " ", "\t", "a", "}", "}">>

ExSpaces == <<" ", "a", " ", "{", "{", " ", " ", "a", " ", " ", "}", "}", " ", "a", " ">>

Examples == {ExBasic, ExOps, ExUnterminated, ExUnrecognized, ExPlain, ExDigitsFirst, ExUnderscore, ExOverlap, ExAllOps, ExTab, ExSpaces}

Inputs == Strings(CoreChars, MaxLen) \cup Strings(WideChars, MaxWide) \cup Examples

\* <<lm, rm>>: the conventional pair, one-character delimiters, a close
\* delimiter that begins with a marker, with an identifier character or with
\* a space, and delimiters outside ASCII
Delims ==
    { << <<"{", "{">>, <<"}", "}">> >>,
      << <<"{">>, <<"}">> >>,
      << <<"{", "{">>, <<"#", "}">> >>,
      << <<"{">>, <<"a", "}">> >>,
      << <<"{">>, <<"a">> >>,
      << <<"{", "{">>, <<" ", "}">> >>,
      << <<"U+00E9">>, <<"}">> >>,
      << <<"{">>, <<"a", "U+00E9">> >> }

(***************************************************************************)
(* The state machine: one action per call on the Tokenlizer.               *)
(***************************************************************************)
Self == [reader |-> reader, buf |-> buf, state |-> state,
         lm |-> lm, rm |-> rm, peak |-> Len(buf), ws |-> {}]

\* what the call before has pushed back, when it was push_back_char or
\* push_back_str
Pushed ==
    IF last.op \in {"push_back_char", "push_back_str"}
    THEN [op |-> last.op, str |-> last.arg]
    ELSE [op |-> "", str |-> <<>>]

Pre == [buf |-> buf, reader |-> reader, state |-> state, lm |-> lm, rm |-> rm,
        done |-> done, pushed |-> Pushed]

Commit(s) ==
    /\ reader' = s.reader
    /\ buf' = s.buf
    /\ state' = s.state
    /\ lm' = s.lm
    /\ rm' = s.rm
    /\ input' = input

Call(op, size, arg, some, type, str, s) ==
    last' = [op |-> op, size |-> size, arg |-> arg, some |-> some,
             type |-> type, str |-> str, pre |-> Pre, peak |-> s.peak]

InitWith(in, d) ==
    LET t == new(d[1], d[2], in) IN
    /\ input = in
    /\ reader = t.reader
    /\ buf = t.buf
    /\ state = t.state
    /\ lm = t.lm
    /\ rm = t.rm
    /\ tokens = <<>>
    /\ done = FALSE
    /\ skipped = {}
    /\ last = [op |-> "new", size |-> 0, arg |-> <<>>, some |-> FALSE,
               type |-> "None", str |-> <<>>,
               pre |-> [buf |-> <<>>, reader |-> in, state |-> "Normal",
                        lm |-> d[1], rm |-> d[2], done |-> FALSE,
                        pushed |-> [op |-> "", str |-> <<>>]],
               peak |-> 0]

Init == \E in \in Inputs, d \in Delims : InitWith(in, d)

\* Iterator::next, which is read_token
ReadToken ==
    LET r == read_token(Self) IN
    /\ Commit(r.self)
    /\ tokens' = IF r.ret = None THEN tokens ELSE Append(tokens, r.ret)
    /\ done' = (done \/ r.ret = None)
    /\ skipped' = skipped \cup {Len(input) - k + 1 : k \in r.self.ws}
    /\ Call("read_token", 0, <<>>, r.ret # None, r.ret.type, r.ret.str, r.self)

Next == ReadToken

Spec == Init /\ [][Next]_vars

(***************************************************************************)
(* The same Tokenlizer with its stream operations called directly, as      *)
(* test_push_back does, in any order and mixed with next().                *)
(***************************************************************************)
OpsChars == {"{", "a", " "}

OpsExamples ==
    {ExOverlap, <<"{", "a", "}">>, <<"U+00E9", "{">>, <<"a", "U+00E9">>}

OpsInputs == Strings(OpsChars, MaxOpsLen) \cup OpsExamples

OpsDelims == { << <<"{">>, <<"}">> >> }

\* the strings given to read_until, starts_with and push_back_str
ArgStrs == {<<>>, <<"{">>, <<"{", "{">>, <<"a", " ">>, <<"U+00E9">>}

InitOps == \E in \in OpsInputs, d \in OpsDelims : InitWith(in, d)

Keep == tokens' = tokens /\ done' = done /\ skipped' = skipped

Read ==
    LET r == read(Self) IN
    /\ Commit(r.self) /\ Keep
    /\ Call("read", 0, <<>>, r.some, "char", IF r.some THEN <<r.ch>> ELSE <<>>, r.self)

ReadStr ==
    \E size \in 0..MaxRead :
        LET r == read_str(Self, size) IN
        /\ Commit(r.self) /\ Keep
        /\ Call("read_str", size, <<>>, r.some, "str", r.str, r.self)

ReadUntil ==
    \E until \in ArgStrs :
        LET r == read_until(Self, until) IN
        /\ Commit(r.self) /\ Keep
        /\ Call("read_until", 0, until, r.some, "str", r.str, r.self)

ReadWhile ==
    LET r == read_while(Self, is_id_pred) IN
    /\ Commit(r.self) /\ Keep
    /\ Call("read_while", 0, <<>>, r.some, "str", r.str, r.self)

StartsWith ==
    \E st \in ArgStrs :
        LET r == starts_with(Self, st) IN
        /\ Commit(r.self) /\ Keep
        /\ Call("starts_with", 0, st, r.ret, "bool", <<>>, r.self)

SkipWs ==
    LET s == skip_ws(Self) IN
    /\ Commit(s) /\ Keep
    /\ Call("skip_ws", 0, <<>>, FALSE, "unit", <<>>, s)

NextOps ==
    \/ Read
    \/ ReadStr
    \/ ReadUntil
    \/ ReadWhile
    \/ StartsWith
    \/ SkipWs
    \/ ReadToken

SpecOps == InitOps /\ [][NextOps]_vars

(***************************************************************************)
(* The stream with push_back_char and push_back_str called directly too,   *)
(* as test_push_back does, each followed by any read.                      *)
(***************************************************************************)
MaxPushLen == 2   \* inputs of this specification have at most MaxPushLen characters
MaxBuf == 3       \* no push is made that takes buf beyond MaxBuf characters

PushChars == {"a", "U+00E9"}

PushStrs == {<<>>, <<"{", "a">>, <<"U+00E9", "a">>, <<"a", "b", "c">>}

PushInputChars == {"{", " "}

InitPush ==
    \E in \in Strings(PushInputChars, MaxPushLen), d \in OpsDelims : InitWith(in, d)

PushBackChar ==
    \E ch \in PushChars :
        /\ Len(buf) + 1 <= MaxBuf
        /\ LET s == push_back_char(Self, ch) IN
           /\ Commit(s) /\ Keep
           /\ Call("push_back_char", 0, <<ch>>, FALSE, "unit", <<>>, s)

PushBackStr ==
    \E st \in PushStrs :
        /\ Len(buf) + Len(st) <= MaxBuf
        /\ LET s == push_back_str(Self, st) IN
           /\ Commit(s) /\ Keep
           /\ Call("push_back_str", 0, st, FALSE, "unit", <<>>, s)

NextPush ==
    \/ PushBackChar
    \/ PushBackStr
    \/ Read
    \/ ReadStr

SpecPush == InitPush /\ [][NextPush]_vars

(***************************************************************************)
(* Vocabulary of the properties.                                           *)
(***************************************************************************)
Stream == buf \o reader

PreStream == last.pre.buf \o last.pre.reader

Ret == [type |-> last.type, str |-> last.str]

IsNext == last.op = "read_token"

Drop(s, n) == SubSeq(s, n + 1, Len(s))

IsPrefix(p, s) == Len(p) <= Len(s) /\ SubSeq(s, 1, Len(p)) = p

IsSuffix(p, s) == Len(p) <= Len(s) /\ Drop(s, Len(s) - Len(p)) = p

OccursAt(sub, s, j) == IsPrefix(sub, Drop(s, j - 1))

Contains(s, sub) == \E j \in 1..(Len(s) + 1) : OccursAt(sub, s, j)

IsPrefixOrEqual(p, s) == IsPrefix(p, s)

RECURSIVE StripSpaces(_)
StripSpaces(s) == IF s # <<>> /\ Head(s) = " " THEN StripSpaces(Tail(s)) ELSE s

RECURSIVE IdRun(_)
IdRun(s) == IF s # <<>> /\ is_id(Head(s)) THEN <<Head(s)>> \o IdRun(Tail(s)) ELSE <<>>

AllId(s) == \A i \in 1..Len(s) : is_id(s[i])

Ascii(s) == \A i \in 1..Len(s) : s[i] \notin NonAscii

Markers == {"#", "&", "/", "^"}

\* the characters of the input a token stands for
SrcText(tok) ==
    CASE tok.type = "LMustache" -> lm
      [] tok.type = "RMustache" -> rm
      [] tok.type = "Pound" -> <<"#">>
      [] tok.type = "UnescapeTag" -> <<"&">>
      [] tok.type = "Slash" -> <<"/">>
      [] tok.type = "Hat" -> <<"^">>
      [] OTHER -> tok.str

Conventional == lm = <<"{", "{">> /\ rm = <<"}", "}">>

\* the token sequence is `expected`, complete once next() has returned None
Yields(expected) ==
    /\ IsPrefix(tokens, expected)
    /\ done => tokens = expected

(***************************************************************************)
(* C1.  Stream preservation.                                               *)
(***************************************************************************)
\* C1: after any sequence of read, read_str, read_until, read_while,
\* starts_with, skip_ws and next() calls, the pushback queue followed by the
\* unread part of the source is a suffix of the original input.
C1_StreamPreserved == IsSuffix(Stream, input)

C1_Witness ==
    /\ last.op \in {"read_str", "read_until", "starts_with"}
    /\ Len(buf) >= 2 /\ buf[1] # buf[2]
    /\ buf # last.pre.buf
    /\ reader # <<>>
    /\ Len(Stream) < Len(input)

(***************************************************************************)
(* C2.  Basic tagging.                                                     *)
(***************************************************************************)
C2Text(k) == SubSeq(input, 1, k)

C2Name(k, n) == SubSeq(input, k + Len(lm) + 1, k + Len(lm) + n)

C2Form(k, n) ==
    /\ Len(input) = k + Len(lm) + n + Len(rm)
    /\ input = C2Text(k) \o lm \o C2Name(k, n) \o rm
    /\ ~Contains(C2Text(k), lm)
    /\ AllId(C2Name(k, n))

C2Expected(k, n) == <<Text(C2Text(k)), LMustache, Id(C2Name(k, n)), RMustache>>

\* C2 as claimed: every input T ++ openDelim ++ I ++ closeDelim with T
\* non-empty and free of openDelim and I a non-empty identifier run yields
\* exactly [Text(T), LMustache, Id(I), RMustache] and then None.
\* Stated here at the delimiters {{ / }} the claim names.
C2_BasicTagging_AsClaimed ==
    Conventional =>
        \A k \in 1..Len(input), n \in 1..Len(input) :
            C2Form(k, n) => Yields(C2Expected(k, n))

C2Guard(k) ==
    /\ Ascii(lm) /\ Ascii(rm)
    /\ ~is_id(rm[1]) /\ rm[1] \notin Markers /\ rm[1] # " "
    /\ \A j \in 1..k : ~OccursAt(lm, C2Text(k) \o lm, j)

\* C2 as amended: the same, for delimiters of ASCII characters whose close
\* delimiter begins with neither an identifier character, a marker nor a
\* space, and T such that openDelim occurs in T ++ openDelim only at its end;
\* "abc{{bcd}}" with {{ / }} yields [Text("abc"), LMustache, Id("bcd"),
\* RMustache].
C2_BasicTagging ==
    /\ \A k \in 1..Len(input), n \in 1..Len(input) :
           C2Form(k, n) /\ C2Guard(k) => Yields(C2Expected(k, n))
    /\ input = ExBasic /\ Conventional =>
           Yields(<<Text(<<"a", "b", "c">>), LMustache, Id(<<"b", "c", "d">>), RMustache>>)

C2_Witness ==
    /\ input = ExBasic /\ Conventional /\ done
    /\ C2Form(3, 3) /\ C2Guard(3)
    /\ tokens = C2Expected(3, 3)

(***************************************************************************)
(* C3.  Space skipping inside a tag.                                       *)
(***************************************************************************)
ExOpsTokens ==
    <<Text(<<"a", "b", "c">>), LMustache, Hat, Pound, Id(<<"a", "b", "c">>),
      RMustache, Text(<<"b", "c", "d">>)>>

\* C3: a next() call in state SyntaxToken consumes exactly the maximal run
\* of ' ' characters (not tab, not newline) followed by the characters of the
\* token it returns, and no token holds the skipped spaces; a call in state
\* Normal consumes exactly the characters of its token (spaces stay in Text);
\* "abc{{^ # abc}}bcd" yields [Text("abc"), LMustache, Hat, Pound, Id("abc"),
\* RMustache, Text("bcd")].
C3_SpaceSkipping ==
    /\ IsNext /\ last.pre.state = "SyntaxToken" =>
           LET rest == StripSpaces(PreStream) IN
           /\ IsPrefix(SrcText(Ret), rest)
           /\ Stream = Drop(rest, Len(SrcText(Ret)))
           /\ Ret.type # "Text"
           /\ \A i \in 1..Len(Ret.str) : Ret.str[i] # " "
    /\ IsNext /\ last.pre.state = "Normal" =>
           /\ IsPrefix(SrcText(Ret), PreStream)
           /\ Stream = Drop(PreStream, Len(SrcText(Ret)))
           /\ Ret.type \in {"Text", "LMustache", "None"}
    /\ input = ExOps /\ Conventional => Yields(ExOpsTokens)

C3_Witness ==
    /\ input = ExOps /\ Conventional
    /\ IsNext /\ last.pre.state = "SyntaxToken"
    /\ IsPrefix(<<" ", "#">>, PreStream)
    /\ Ret = Pound
    /\ tokens = SubSeq(ExOpsTokens, 1, 4)

(***************************************************************************)
(* C4.  Fixed priority order in state SyntaxToken.                         *)
(***************************************************************************)
\* C4: after the spaces, the first of '#', '&', '/', '^', closeDelim,
\* identifier run that matches at the current position decides the token:
\* a marker gives its token and leaves the state, closeDelim gives RMustache
\* and state Normal, an identifier run gives Id.
C4_PriorityOrder ==
    IsNext /\ last.pre.state = "SyntaxToken" =>
        LET rest == StripSpaces(PreStream) IN
        IF IsPrefix(<<"#">>, rest) THEN Ret = Pound /\ state = "SyntaxToken"
        ELSE IF IsPrefix(<<"&">>, rest) THEN Ret = UnescapeTag /\ state = "SyntaxToken"
        ELSE IF IsPrefix(<<"/">>, rest) THEN Ret = Slash /\ state = "SyntaxToken"
        ELSE IF IsPrefix(<<"^">>, rest) THEN Ret = Hat /\ state = "SyntaxToken"
        ELSE IF IsPrefix(rm, rest) THEN Ret = RMustache /\ state = "Normal"
        ELSE IF rest # <<>> /\ is_id(Head(rest)) THEN Ret.type = "Id" /\ state = "SyntaxToken"
        ELSE Ret = None

(***************************************************************************)
(* C5.  None in state Normal only at the end of the input.                 *)
(***************************************************************************)
\* C5: a next() call made in state Normal while a character is unread
\* returns LMustache or a non-empty Text.
C5_NormalNoneOnlyAtEnd ==
    IsNext /\ last.pre.state = "Normal" /\ PreStream # <<>> =>
        \/ Ret = LMustache
        \/ Ret.type = "Text" /\ Ret.str # <<>>

(***************************************************************************)
(* C6.  Input without an open delimiter.                                   *)
(***************************************************************************)
\* C6: a non-empty input in which openDelim does not occur yields exactly
\* [Text(input)], also when it ends with a proper prefix of openDelim; on the
\* empty input the first next() returns None.
C6_NoOpenDelim ==
    ~Contains(input, lm) =>
        IF input = <<>>
        THEN tokens = <<>> /\ (IsNext => Ret = None)
        ELSE /\ Yields(<<Text(input)>>)
             /\ IsNext => tokens = <<Text(input)>>

C6_Witness ==
    /\ ~Contains(input, lm) /\ Conventional
    /\ Len(input) >= 2 /\ input[Len(input)] = "{"
    /\ done /\ tokens = <<Text(input)>>

(***************************************************************************)
(* C7.  Unterminated tag.                                                  *)
(***************************************************************************)
\* C7: when the input ends in state SyntaxToken, next() returns None and the
\* state stays SyntaxToken; while no closeDelim follows, no RMustache is
\* returned and the state stays SyntaxToken; "{{abc" yields [LMustache,
\* Id("abc")] and then None, in state SyntaxToken.
C7_UnterminatedTag ==
    /\ IsNext /\ last.pre.state = "SyntaxToken" /\ StripSpaces(PreStream) = <<>> =>
           Ret = None /\ state = "SyntaxToken"
    /\ IsNext /\ last.pre.state = "SyntaxToken" /\ ~Contains(PreStream, rm) =>
           Ret # RMustache /\ state = "SyntaxToken"
    /\ input = ExUnterminated /\ Conventional =>
           /\ Yields(<<LMustache, Id(<<"a", "b", "c">>)>>)
           /\ done => state = "SyntaxToken"

C7_Witness ==
    /\ input = ExUnterminated /\ Conventional
    /\ done /\ state = "SyntaxToken" /\ Stream = <<>>
    /\ tokens = <<LMustache, Id(<<"a", "b", "c">>)>>

(***************************************************************************)
(* C8.  Unrecognized tag content.                                          *)
(***************************************************************************)
C8Unrecognized(rest) ==
    /\ rest # <<>>
    /\ Head(rest) \notin Markers
    /\ ~IsPrefix(rm, rest)
    /\ ~is_id(Head(rest))

\* C8: in state SyntaxToken, when the first character after the spaces is no
\* marker, closeDelim does not match there and the character is no
\* identifier character, next() returns None, the state stays SyntaxToken and
\* that character and all after it stay unread; "{{!}}" yields [LMustache]
\* and then None, and never RMustache.
C8_UnrecognizedContent ==
    /\ IsNext /\ last.pre.state = "SyntaxToken" /\ C8Unrecognized(StripSpaces(PreStream)) =>
           /\ Ret = None
           /\ state = "SyntaxToken"
           /\ Stream = StripSpaces(PreStream)
    /\ input = ExUnrecognized /\ Conventional => Yields(<<LMustache>>)

C8_Witness ==
    /\ input = ExUnrecognized /\ Conventional
    /\ IsNext /\ C8Unrecognized(StripSpaces(PreStream))
    /\ done /\ tokens = <<LMustache>> /\ Stream = <<"!", "}", "}">>

(***************************************************************************)
(* C9.  Identifier boundary.                                               *)
(***************************************************************************)
\* the token before the one the last call returned
C9Previous ==
    LET n == IF last.some THEN Len(tokens) - 1 ELSE Len(tokens) IN
    IF n >= 1 THEN tokens[n] ELSE None

\* C9: an Id holds the maximal run of identifier characters at the current
\* position, and for every closeDelim an identifier immediately followed by
\* closeDelim is returned as Id(identifier), and RMustache after it.
C9_IdentifierBoundary ==
    /\ IsNext /\ Ret.type = "Id" => Ret.str = IdRun(StripSpaces(PreStream))
    /\ IsNext /\ last.pre.state = "SyntaxToken" =>
           LET rest == StripSpaces(PreStream) IN
           \A n \in 1..Len(rest) :
               /\ AllId(SubSeq(rest, 1, n))
               /\ IsPrefix(rm, Drop(rest, n))
               /\ ~IsPrefix(rm, rest)
               => Ret = Id(SubSeq(rest, 1, n))
    /\ /\ IsNext /\ last.pre.state = "SyntaxToken" /\ ~last.pre.done
       /\ C9Previous.type = "Id" /\ IsPrefix(rm, PreStream)
       => Ret = RMustache

(***************************************************************************)
(* C10.  The state changes only on delimiters.                             *)
(***************************************************************************)
\* C10: the state starts as Normal; a next() call takes it from Normal to
\* SyntaxToken exactly when it returns LMustache and from SyntaxToken to
\* Normal exactly when it returns RMustache; a call that returns Text, Pound,
\* UnescapeTag, Slash, Hat, Id or None leaves it; lm and rm never change.
C10_StateFrame ==
    /\ last.op = "new" => state = "Normal"
    /\ IsNext =>
           /\ (last.pre.state = "Normal" /\ state = "SyntaxToken")
                  <=> (last.pre.state = "Normal" /\ Ret = LMustache)
           /\ (last.pre.state = "SyntaxToken" /\ state = "Normal")
                  <=> (last.pre.state = "SyntaxToken" /\ Ret = RMustache)
           /\ Ret.type \in {"Text", "Pound", "UnescapeTag", "Slash", "Hat", "Id", "None"}
                  => state = last.pre.state
           /\ Ret.type \in {"LMustache", "RMustache"} => state # last.pre.state
    /\ lm = last.pre.lm /\ rm = last.pre.rm

C10_Witness ==
    /\ IsNext /\ last.pre.state = "SyntaxToken" /\ Ret = RMustache
    /\ state = "Normal"
    /\ \E i \in 1..Len(tokens) : tokens[i] = Pound
(***************************************************************************)
(* C11.  Termination.                                                      *)
(***************************************************************************)
\* the characters read from the input and not pushed back
Consumed == Len(input) - Len(Stream)

\* C11: every next() call that returns a token shortens the unread stream
\* by at least one character, so the tokens returned never outnumber the
\* characters consumed (nor those of the input), and once the stream is
\* empty a call returns None: the unread stream is a measure that every
\* token decreases, so the sequence of tokens is finite.
C11_Termination ==
    /\ IsNext /\ last.some => Len(Stream) < Len(PreStream)
    /\ IsNext => Len(Stream) <= Len(PreStream)
    /\ Len(tokens) <= Consumed
    /\ Len(tokens) <= Len(input)
    /\ IsNext /\ PreStream = <<>> => ~last.some /\ done

C11_Witness ==
    /\ done /\ IsNext
    /\ Len(input) >= 3
    /\ Len(tokens) = Len(input)
    /\ Stream = <<>>
(***************************************************************************)
(* C12.  Pushback round trip.                                              *)
(***************************************************************************)
\* C12: in any state of the stream, read() right after push_back_char(c)
\* returns c, and read_str(n) right after push_back_str(s), n the number of
\* characters of s, returns s in its order, the empty s included; the
\* characters come from the queue, the source is not touched, and what was in
\* the queue before the push is still in it, behind.
C12_PushbackRoundTrip ==
    /\ last.op = "read" /\ last.pre.pushed.op = "push_back_char" =>
           /\ last.some /\ last.str = last.pre.pushed.str
           /\ reader = last.pre.reader
           /\ buf = Drop(last.pre.buf, 1)
    /\ /\ last.op = "read_str" /\ last.pre.pushed.op = "push_back_str"
       /\ last.size = Len(last.pre.pushed.str)
       => /\ last.some /\ last.str = last.pre.pushed.str
          /\ reader = last.pre.reader
          /\ buf = Drop(last.pre.buf, last.size)
    /\ last.op \in {"push_back_char", "push_back_str"} =>
           /\ buf = last.arg \o last.pre.buf
           /\ reader = last.pre.reader

C12_Witness ==
    /\ last.op = "read_str" /\ last.pre.pushed.op = "push_back_str"
    /\ last.pre.pushed.str = <<"U+00E9", "a">>
    /\ last.size = 2 /\ last.str = <<"U+00E9", "a">>
    /\ buf # <<>> /\ reader = <<>>
(***************************************************************************)
(* C13.  read_str is all-or-nothing.                                       *)
(***************************************************************************)
\* C13: read_str(n) returns exactly the next n characters of the pushback
\* queue followed by the source, and consumes them, when at least n remain;
\* otherwise it returns None and the queue followed by the unread source is
\* what it was before the call, also when the characters it had read came
\* partly from the queue and partly from the source.
C13_ReadStrAllOrNothing ==
    last.op = "read_str" =>
        IF last.size <= Len(PreStream)
        THEN /\ last.some
             /\ last.str = SubSeq(PreStream, 1, last.size)
             /\ Stream = Drop(PreStream, last.size)
        ELSE /\ ~last.some
             /\ last.str = <<>>
             /\ Stream = PreStream

C13_Witness ==
    /\ last.op = "read_str"
    /\ ~last.some
    /\ last.pre.buf # <<>>
    /\ last.pre.reader # <<>>
    /\ last.size > Len(PreStream)
    /\ reader = <<>>
    /\ buf = PreStream

(***************************************************************************)
(* C14.  starts_with.                                                      *)
(***************************************************************************)
\* C14: for every string st, starts_with(st) returns true exactly when the
\* pushback queue followed by the source begins with st, and then consumes
\* exactly st; when it returns false the queue followed by the unread source
\* is what it was before the call.
C14_StartsWithExact ==
    last.op = "starts_with" =>
        /\ last.some <=> IsPrefix(last.arg, PreStream)
        /\ last.some => Stream = Drop(PreStream, Len(last.arg))
        /\ ~last.some => Stream = PreStream

(***************************************************************************)
(* C15.  read_until.                                                       *)
(***************************************************************************)
\* the first position where sub occurs in s
FirstAt(sub, s) == CHOOSE j \in 1..(Len(s) + 1) :
                       /\ OccursAt(sub, s, j)
                       /\ \A i \in 1..(j - 1) : ~OccursAt(sub, s, i)

\* C15: for a non-empty string d, read_until(d) returns the characters before
\* the first occurrence of d in the pushback queue followed by the source
\* (None when there are none) and leaves d and what follows it unread; when d
\* does not occur it returns all the characters left (None when there are
\* none) and leaves nothing unread.  Occurrences of d may overlap and d may
\* be preceded by a prefix of itself.
C15_ReadUntil ==
    last.op = "read_until" /\ last.arg # <<>> =>
        IF Contains(PreStream, last.arg)
        THEN LET j == FirstAt(last.arg, PreStream) IN
             /\ last.str = SubSeq(PreStream, 1, j - 1)
             /\ last.some <=> j > 1
             /\ Stream = Drop(PreStream, j - 1)
             /\ IsPrefix(last.arg, Stream)
        ELSE /\ last.str = PreStream
             /\ last.some <=> PreStream # <<>>
             /\ Stream = <<>>

C15_Witness ==
    /\ last.op = "read_until"
    /\ last.arg = <<"{", "{">>
    /\ PreStream = ExOverlap
    /\ last.some /\ last.str = <<"a">>
    /\ buf = <<"{", "{">>
    /\ reader = <<"{", "b", "}", "}">>

(***************************************************************************)
(* C16.  LMustache and RMustache alternate and follow the state.           *)
(***************************************************************************)
\* the number of tokens of type ty among the first n emitted
Count(ty, n) == Cardinality({i \in 1..n : tokens[i].type = ty})

\* the state the Tokenlizer was in after its first n tokens, by the count
Open(n) == Count("LMustache", n) = Count("RMustache", n) + 1

Closed(n) == Count("LMustache", n) = Count("RMustache", n)

InTagTypes == {"Pound", "UnescapeTag", "Slash", "Hat", "Id"}

\* C16: in the tokens emitted LMustache and RMustache alternate, LMustache
\* first; the state is SyntaxToken exactly when one more LMustache than
\* RMustache has been emitted and Normal exactly when as many; Pound,
\* UnescapeTag, Slash, Hat and Id are emitted only in state SyntaxToken and
\* Text only in state Normal.
C16_Alternation ==
    /\ state = "SyntaxToken" <=> Open(Len(tokens))
    /\ state = "Normal" <=> Closed(Len(tokens))
    /\ \A i \in 1..Len(tokens) :
           /\ tokens[i].type = "LMustache" => Closed(i - 1)
           /\ tokens[i].type = "RMustache" => Open(i - 1)
           /\ tokens[i].type \in InTagTypes => Open(i - 1)
           /\ tokens[i].type = "Text" => Closed(i - 1)
    /\ IsNext /\ Ret.type \in InTagTypes \cup {"RMustache"} =>
           last.pre.state = "SyntaxToken"
    /\ IsNext /\ Ret.type \in {"Text", "LMustache"} => last.pre.state = "Normal"

C16_Witness ==
    /\ input = ExOps /\ Conventional
    /\ IsNext /\ Ret.type = "Text"
    /\ Count("LMustache", Len(tokens)) = 1
    /\ Count("RMustache", Len(tokens)) = 1
    /\ Count("Id", Len(tokens)) = 1
    /\ state = "Normal"

(***************************************************************************)
(* C17.  Text tokens.                                                      *)
(***************************************************************************)
\* C17: every Text token emitted has at least one character and does not
\* contain openDelim, and the token after a Text, when there is one, is
\* LMustache: two Text tokens never follow each other.
C17_TextTokens ==
    /\ \A i \in 1..Len(tokens) :
           tokens[i].type = "Text" =>
               /\ tokens[i].str # <<>>
               /\ ~Contains(tokens[i].str, lm)
               /\ i < Len(tokens) => tokens[i + 1] = LMustache
    /\ /\ IsNext
       /\ tokens # <<>>
       /\ tokens[Len(tokens)].type = "Text"
       /\ Ret.type # "Text"
       => Ret = None

C17_Witness ==
    /\ Conventional
    /\ Len(tokens) = 2
    /\ tokens[1] = Text(<<"{", "a">>)
    /\ tokens[2] = LMustache
    /\ IsNext

(***************************************************************************)
(* C18.  None is absorbing.                                                *)
(***************************************************************************)
\* C18: once next() has returned None, in either state, every later next()
\* returns None too, and the state and the pushback queue followed by the
\* unread source stay what they were.
C18_NoneAbsorbing ==
    IsNext /\ last.pre.done =>
        /\ Ret = None
        /\ done
        /\ state = last.pre.state
        /\ Stream = PreStream

C18_Witness ==
    /\ IsNext /\ last.pre.done
    /\ state = "SyntaxToken"
    /\ Stream # <<>>
    /\ tokens # <<>>
    /\ Ret = None

(***************************************************************************)
(* C19.  Bounded lookahead.                                                *)
(***************************************************************************)
\* the bound of the claim, in characters
Lookahead == Max(Max(Len(lm), Len(rm)), 1)

\* C19: after every next() call, and at every step within it, the pushback
\* queue holds at most max(len(openDelim), len(closeDelim), 1) characters.
C19_BoundedLookahead ==
    /\ Len(buf) <= Lookahead
    /\ IsNext => last.peak <= Lookahead

(***************************************************************************)
(* C20.  Lossless tokenization.                                            *)
(***************************************************************************)
\* the characters of the input the first n tokens stand for, in order
RECURSIVE Emitted(_)
Emitted(n) == IF n = 0 THEN <<>> ELSE Emitted(n - 1) \o SrcText(tokens[n])

\* s from its position i on, without the positions in gone
RECURSIVE Without(_, _, _)
Without(s, gone, i) ==
    IF i > Len(s) THEN <<>>
    ELSE (IF i \in gone THEN <<>> ELSE <<s[i]>>) \o Without(s, gone, i + 1)

\* C20: at every point the source text of the tokens emitted so far (the
\* content of a Text, openDelim for LMustache, closeDelim for RMustache, '#',
\* '&', '/', '^' for the markers, the name of an Id), followed by the
\* pushback queue and the unread source, is the input without the spaces
\* skipped inside tags; nothing else is dropped, duplicated or invented.
C20_Lossless ==
    /\ Emitted(Len(tokens)) \o Stream = Without(input, skipped, 1)
    /\ \A p \in skipped : p \in 1..Len(input) /\ input[p] = " "
    /\ skipped # {} => \E i \in 1..Len(tokens) : tokens[i] = LMustache
    /\ IsNext /\ last.pre.state = "Normal" =>
           SrcText(Ret) \o Stream = PreStream
    /\ IsNext /\ last.pre.state = "SyntaxToken" =>
           SrcText(Ret) \o Stream = StripSpaces(PreStream)

C20_Witness ==
    /\ input = ExSpaces /\ Conventional
    /\ skipped = {6, 7, 9, 10}
    /\ Len(tokens) = 5
    /\ tokens[5] = Text(<<" ", "a", " ">>)
    /\ Stream = <<>>

====
